---- MODULE Spec2Model ----
(***************************************************************************)
(* Model of src/server.py: the command-proxy server that exposes the       *)
(* open-cli-collective command-line tools as callable operations.          *)
(*                                                                         *)
(* Python strings are sequences of one-character strings, so that          *)
(* str.split, str.strip and the `in` substring test are computed as        *)
(* Python computes them.  Python values that may be None or of several     *)
(* types are tagged records.  Every subprocess.run call is recorded in     *)
(* `launched` with the outcome the environment gave it.                    *)
(***************************************************************************)
EXTENDS Integers, Sequences, FiniteSets, TLC

VARIABLES pc, op, input, launched, result

vars == <<pc, op, input, launched, result>>

(***************************************************************************)
(* Bounds of the model.                                                    *)
(***************************************************************************)
MaxArgLen == 3

MaxQueryLen == 3

MaxTools == 2

MaxLines == 2

MaxFields == 4

(***************************************************************************)
(* Python built-ins on strings.                                            *)
(***************************************************************************)
IsSpace(c) == c \in {" ", "\n", "\t"}

RECURSIVE lstrip(_)
lstrip(s) ==
  IF s # <<>> /\ IsSpace(Head(s)) THEN lstrip(Tail(s)) ELSE s

RECURSIVE rstrip(_)
rstrip(s) ==
  IF s # <<>> /\ IsSpace(s[Len(s)]) THEN rstrip(SubSeq(s, 1, Len(s) - 1)) ELSE s

strip(s) == rstrip(lstrip(s))

\* The first run of non-whitespace characters of s.
RECURSIVE word(_)
word(s) ==
  IF s = <<>> \/ IsSpace(Head(s)) THEN <<>> ELSE <<Head(s)>> \o word(Tail(s))

\* str.split() with no separator: runs of whitespace separate the words,
\* leading and trailing whitespace give no empty word.
RECURSIVE split(_)
split(s) ==
  LET t == lstrip(s) IN
  IF t = <<>> THEN <<>>
  ELSE LET w == word(t) IN <<w>> \o split(SubSeq(t, Len(w) + 1, Len(t)))

\* The characters of s before the first sep.
RECURSIVE upto(_, _)
upto(s, sep) ==
  IF s = <<>> \/ Head(s) = sep THEN <<>> ELSE <<Head(s)>> \o upto(Tail(s), sep)

\* str.split(sep) for a one-character sep: empty pieces are kept.
RECURSIVE split_sep(_, _)
split_sep(s, sep) ==
  LET w == upto(s, sep) IN
  IF Len(w) = Len(s) THEN <<w>>
  ELSE <<w>> \o split_sep(SubSeq(s, Len(w) + 2, Len(s)), sep)

\* sub in s
contains(sub, s) ==
  \E i \in 0..(Len(s) - Len(sub)) : SubSeq(s, i + 1, i + Len(sub)) = sub

Digit(d) == <<"0", "1", "2", "3", "4", "5", "6", "7", "8", "9">>[d + 1]

\* str(n) for n >= 0
RECURSIVE str_int(_)
str_int(n) ==
  IF n < 10 THEN <<Digit(n)>> ELSE str_int(n \div 10) \o <<Digit(n % 10)>>

(***************************************************************************)
(* Python values.                                                          *)
(***************************************************************************)
None == [tag |-> "None"]

PyStr(s) == [tag |-> "str", v |-> s]

PyInt(n) == [tag |-> "int", v |-> n]

PyBool(b) == [tag |-> "bool", v |-> b]

PyList(items) == [tag |-> "list", v |-> items]

PyDict(keys) == [tag |-> "dict", v |-> keys]

\* bool(x): None, 0, False and empty containers and strings are falsy.
truthy(x) ==
  CASE x.tag = "None" -> FALSE
    [] x.tag = "int" -> x.v # 0
    [] x.tag = "bool" -> x.v
    [] OTHER -> x.v # <<>>

(***************************************************************************)
(* json.loads on the texts the model's subprocesses print.                 *)
(***************************************************************************)
IsDigits(s) == s # <<>> /\ \A i \in 1..Len(s) : s[i] \in {"0", "1", "2", "3", "4", "5", "6", "7", "8", "9"}

RECURSIVE int_of(_)
int_of(s) ==
  IF s = <<>> THEN 0
  ELSE 10 * int_of(SubSeq(s, 1, Len(s) - 1))
       + (CHOOSE d \in 0..9 : Digit(d) = s[Len(s)])

json_loads(s) ==
  CASE s = <<"n", "u", "l", "l">> -> [ok |-> TRUE, value |-> None]
    [] s = <<"t", "r", "u", "e">> -> [ok |-> TRUE, value |-> PyBool(TRUE)]
    [] s = <<"f", "a", "l", "s", "e">> -> [ok |-> TRUE, value |-> PyBool(FALSE)]
    [] s = <<"[", "]">> -> [ok |-> TRUE, value |-> PyList(<<>>)]
    [] s = <<"{", "}">> -> [ok |-> TRUE, value |-> PyDict(<<>>)]
    [] s = <<"\"", "\"">> -> [ok |-> TRUE, value |-> PyStr(<<>>)]
    [] IsDigits(s) /\ (Len(s) = 1 \/ s[1] # "0") -> [ok |-> TRUE, value |-> PyInt(int_of(s))]
    [] Len(s) > 2 /\ s[1] = "[" /\ s[Len(s)] = "]"
       /\ IsDigits(SubSeq(s, 2, Len(s) - 1))
       /\ (Len(s) = 3 \/ s[2] # "0") ->
         [ok |-> TRUE, value |-> PyList(<<PyInt(int_of(SubSeq(s, 2, Len(s) - 1)))>>)]
    [] OTHER -> [ok |-> FALSE]

\* json.dumps(obj): the operation returns a JSON payload.
json_dumps(obj) == [kind |-> "json", obj |-> obj]

\* An exception leaves the operation.
Raise(e) == [kind |-> "raise", exc |-> e.exc, msg |-> e.msg]

(***************************************************************************)
(* The tool registry.                                                      *)
(***************************************************************************)
CLI_CONFIG ==
  (<<"j", "i", "r", "a", "-", "t", "i", "c", "k", "e", "t", "-", "c", "l", "i">> :>
     [path |-> <<"j", "i", "r", "a", "-", "t", "i", "c", "k", "e", "t", "-", "c", "l", "i">>, version_cmd |-> <<<<"-", "-", "v", "e", "r", "s", "i", "o", "n">>>>,
      json_flag |-> <<"-", "-", "o", "u", "t", "p", "u", "t", " ", "j", "s", "o", "n">>, source |-> <<"c", "a", "s", "k">>,
      cask |-> <<"o", "p", "e", "n", "-", "c", "l", "i", "-", "c", "o", "l", "l", "e", "c", "t", "i", "v", "e", "/", "t", "a", "p", "/", "j", "i", "r", "a", "-", "t", "i", "c", "k", "e", "t", "-", "c", "l", "i">>])
  @@ (<<"s", "l", "c", "k">> :>
     [path |-> <<"s", "l", "c", "k">>, version_cmd |-> <<<<"-", "-", "v", "e", "r", "s", "i", "o", "n">>>>,
      json_flag |-> <<"-", "-", "o", "u", "t", "p", "u", "t", " ", "j", "s", "o", "n">>, source |-> <<"c", "a", "s", "k">>,
      cask |-> <<"o", "p", "e", "n", "-", "c", "l", "i", "-", "c", "o", "l", "l", "e", "c", "t", "i", "v", "e", "/", "t", "a", "p", "/", "s", "l", "a", "c", "k", "-", "c", "h", "a", "t", "-", "c", "l", "i">>])
  @@ (<<"c", "f", "l">> :>
     [path |-> <<"c", "f", "l">>, version_cmd |-> <<<<"-", "-", "v", "e", "r", "s", "i", "o", "n">>>>,
      json_flag |-> <<"-", "-", "o", "u", "t", "p", "u", "t", " ", "j", "s", "o", "n">>, source |-> <<"c", "a", "s", "k">>,
      cask |-> <<"o", "p", "e", "n", "-", "c", "l", "i", "-", "c", "o", "l", "l", "e", "c", "t", "i", "v", "e", "/", "t", "a", "p", "/", "c", "f", "l">>])
  @@ (<<"n", "e", "w", "r", "e", "l", "i", "c", "-", "c", "l", "i">> :>
     [path |-> <<"n", "e", "w", "r", "e", "l", "i", "c", "-", "c", "l", "i">>, version_cmd |-> <<<<"-", "-", "v", "e", "r", "s", "i", "o", "n">>>>,
      json_flag |-> <<"-", "-", "o", "u", "t", "p", "u", "t", " ", "j", "s", "o", "n">>, source |-> <<"c", "a", "s", "k">>,
      cask |-> <<"o", "p", "e", "n", "-", "c", "l", "i", "-", "c", "o", "l", "l", "e", "c", "t", "i", "v", "e", "/", "t", "a", "p", "/", "n", "e", "w", "r", "e", "l", "i", "c", "-", "c", "l", "i">>])
  @@ (<<"g", "r", "o">> :>
     [path |-> <<"g", "r", "o">>, version_cmd |-> <<<<"-", "-", "v", "e", "r", "s", "i", "o", "n">>>>,
      json_flag |-> <<"-", "-", "j", "s", "o", "n">>, source |-> <<"c", "a", "s", "k">>,
      cask |-> <<"o", "p", "e", "n", "-", "c", "l", "i", "-", "c", "o", "l", "l", "e", "c", "t", "i", "v", "e", "/", "t", "a", "p", "/", "g", "o", "o", "g", "l", "e", "-", "r", "e", "a", "d", "o", "n", "l", "y">>])

\* list(CLI_CONFIG.keys()): the names in the order the registry gives them.
CLI_NAMES == <<<<"j", "i", "r", "a", "-", "t", "i", "c", "k", "e", "t", "-", "c", "l", "i">>, <<"s", "l", "c", "k">>, <<"c", "f", "l">>, <<"n", "e", "w", "r", "e", "l", "i", "c", "-", "c", "l", "i">>, <<"g", "r", "o">>>>

(***************************************************************************)
(* subprocess.run: the environment decides how each call ends.  A call     *)
(* either completes with an exit code and the two captured streams, or     *)
(* raises: the binary is missing, may not be executed, or runs past the    *)
(* timeout.                                                                *)
(***************************************************************************)
Completed(rc, out, err) ==
  [kind |-> "completed", returncode |-> rc, stdout |-> out, stderr |-> err]

Raised(exc, msg) == [kind |-> "raised", exc |-> exc, msg |-> msg]

FileNotFound == Raised("FileNotFoundError", <<"N", "o", " ", "s", "u", "c", "h", " ", "f", "i", "l", "e">>)

PermissionDenied == Raised("PermissionError", <<"P", "e", "r", "m", "i", "s", "s", "i", "o", "n", " ", "d", "e", "n", "i", "e", "d">>)

TimedOut == Raised("TimeoutExpired", <<"t", "i", "m", "e", "d", " ", "o", "u", "t">>)

LaunchFaults == {FileNotFound, PermissionDenied, TimedOut}

\* One entry of `launched`: a subprocess.run call and how it ended.
Call(cmd, timeout, r) == [cmd |-> cmd, timeout |-> timeout, outcome |-> r]

DEFAULT_TIMEOUT == 60

(***************************************************************************)
(* run_cli, given the outcome r of its subprocess.run call.                *)
(***************************************************************************)
\* The envelope of a subprocess that ran to its end.
envelope(r) ==
  LET output == strip(r.stdout)
      stderr == strip(r.stderr)
      parsed == IF output # <<>> THEN json_loads(output)
                ELSE [ok |-> TRUE, value |-> None]
      data == IF parsed.ok THEN parsed.value ELSE None
  IN [success |-> r.returncode = 0,
      exit_code |-> r.returncode,
      data |-> data,
      output |-> IF ~truthy(data) THEN PyStr(output) ELSE None,
      stderr |-> IF stderr # <<>> THEN PyStr(stderr) ELSE None]

\* launch_error with a slip: the timeout is handled like any other exception and the
\* output read so far is handed back with it.
launch_error_with_partial_output(timeout, r) ==
  IF r.exc = "FileNotFoundError" THEN
    [success |-> FALSE, error |-> <<"C", "L", "I", " ", "n", "o", "t", " ", "f", "o", "u", "n", "d", ":", " ">> \o r.msg]
  ELSE IF r.exc = "TimeoutExpired" THEN
    [success |-> FALSE, error |-> r.msg, output |-> PyStr(<<>>)]
  ELSE
    [success |-> FALSE, error |-> r.msg]

\* The envelope of a subprocess.run call that raised.
launch_error(timeout, r) ==
  IF r.exc = "TimeoutExpired" THEN
    [success |-> FALSE,
     error |-> <<"C", "o", "m", "m", "a", "n", "d", " ", "t", "i", "m", "e", "d", " ", "o", "u", "t", " ", "a", "f", "t", "e", "r", " ">> \o str_int(timeout) \o <<"s">>]
  ELSE IF r.exc = "FileNotFoundError" THEN
    [success |-> FALSE, error |-> <<"C", "L", "I", " ", "n", "o", "t", " ", "f", "o", "u", "n", "d", ":", " ">> \o r.msg]
  ELSE
    [success |-> FALSE, error |-> r.msg]

run_cli(cmd, timeout, r) ==
  IF r.kind = "completed" THEN envelope(r) ELSE launch_error(timeout, r)

\* What an operation hands back: the calls it made and what it returned.
Done(calls, ret) == [launched |-> calls, ret |-> ret]

(***************************************************************************)
(* Generic CLI access.                                                     *)
(***************************************************************************)
\* cli_help with a slip: the registry is read without the membership test, and the
\* lookup of an unregistered name raises KeyError.
cli_help_unguarded(cli, subcommand, r) ==
  IF cli \notin DOMAIN CLI_CONFIG THEN
    Done(<<>>, Raise(Raised("KeyError", cli)))
  ELSE
    LET config == CLI_CONFIG[cli]
        cmd == <<config.path>>
               \o (IF truthy(subcommand) THEN split(subcommand.v) ELSE <<>>)
               \o <<<<"-", "-", "h", "e", "l", "p">>>>
    IN Done(<<Call(cmd, DEFAULT_TIMEOUT, r)>>,
            json_dumps(run_cli(cmd, DEFAULT_TIMEOUT, r)))

cli_help(cli, subcommand, r) ==
  IF cli \notin DOMAIN CLI_CONFIG THEN
    Done(<<>>, json_dumps(
      [error |-> [text |-> <<"U", "n", "k", "n", "o", "w", "n", " ", "C", "L", "I", ":", " ">>, cli |-> cli,
                  available |-> CLI_NAMES]]))
  ELSE
    LET config == CLI_CONFIG[cli]
        cmd == <<config.path>>
               \o (IF truthy(subcommand) THEN split(subcommand.v) ELSE <<>>)
               \o <<<<"-", "-", "h", "e", "l", "p">>>>
    IN Done(<<Call(cmd, DEFAULT_TIMEOUT, r)>>,
            json_dumps(run_cli(cmd, DEFAULT_TIMEOUT, r)))

\* The body the five pass-through operations share, for the tool `name`.
generic_cli(name, args, r) ==
  LET config == CLI_CONFIG[name]
      cmd == <<config.path>> \o split(args)
  IN Done(<<Call(cmd, DEFAULT_TIMEOUT, r)>>,
          json_dumps(run_cli(cmd, DEFAULT_TIMEOUT, r)))

jira_cli(args, r) == generic_cli(<<"j", "i", "r", "a", "-", "t", "i", "c", "k", "e", "t", "-", "c", "l", "i">>, args, r)

slack_cli(args, r) == generic_cli(<<"s", "l", "c", "k">>, args, r)

confluence_cli(args, r) == generic_cli(<<"c", "f", "l">>, args, r)

newrelic_cli(args, r) == generic_cli(<<"n", "e", "w", "r", "e", "l", "i", "c", "-", "c", "l", "i">>, args, r)

google_cli(args, r) == generic_cli(<<"g", "r", "o">>, args, r)

(***************************************************************************)
(* Convenience wrappers.                                                   *)
(***************************************************************************)
jira_get_issue(issue_key, r) ==
  jira_cli(<<"i", "s", "s", "u", "e", "s", " ", "g", "e", "t", " ">> \o issue_key \o <<" ", "-", "-", "o", "u", "t", "p", "u", "t", " ", "j", "s", "o", "n">>, r)

slack_search_messages(query, count, r) ==
  slack_cli(<<"s", "e", "a", "r", "c", "h", " ", "m", "e", "s", "s", "a", "g", "e", "s", " ", "\"">> \o query \o <<"\"", " ", "-", "-", "c", "o", "u", "n", "t", " ">> \o str_int(count)
            \o <<" ", "-", "-", "o", "u", "t", "p", "u", "t", " ", "j", "s", "o", "n">>, r)

confluence_search(query, limit, r) ==
  confluence_cli(<<"s", "e", "a", "r", "c", "h", " ", "\"">> \o query \o <<"\"", " ", "-", "-", "l", "i", "m", "i", "t", " ">> \o str_int(limit)
                 \o <<" ", "-", "-", "o", "u", "t", "p", "u", "t", " ", "j", "s", "o", "n">>, r)

gmail_search(query, limit, r) ==
  google_cli(<<"g", "m", "a", "i", "l", " ", "s", "e", "a", "r", "c", "h", " ", "-", "-", "q", "u", "e", "r", "y", " ", "\"">> \o query \o <<"\"", " ", "-", "-", "l", "i", "m", "i", "t", " ">>
             \o str_int(limit) \o <<" ", "-", "-", "j", "s", "o", "n">>, r)

calendar_today(r) == google_cli(<<"c", "a", "l", "e", "n", "d", "a", "r", " ", "t", "o", "d", "a", "y", " ", "-", "-", "j", "s", "o", "n">>, r)

drive_search(query, limit, r) ==
  google_cli(<<"d", "r", "i", "v", "e", " ", "s", "e", "a", "r", "c", "h", " ", "\"">> \o query \o <<"\"", " ", "-", "-", "l", "i", "m", "i", "t", " ">> \o str_int(limit)
             \o <<" ", "-", "-", "j", "s", "o", "n">>, r)

(***************************************************************************)
(* Tool management.                                                        *)
(***************************************************************************)
get_brew_path(mach) ==
  IF mach = <<"a", "r", "m", "6", "4">> THEN <<"/", "o", "p", "t", "/", "h", "o", "m", "e", "b", "r", "e", "w", "/", "b", "i", "n", "/", "b", "r", "e", "w">> ELSE <<"/", "u", "s", "r", "/", "l", "o", "c", "a", "l", "/", "b", "i", "n", "/", "b", "r", "e", "w">>

Last(s) == s[Len(s)]

\* config["cask"].split("/")[-1]
cask_name(name) == Last(split_sep(CLI_CONFIG[name].cask, "/"))

PROBE_TIMEOUT == 5

OUTDATED_TIMEOUT == 30

TAP_TIMEOUT == 60

BATCH_TIMEOUT == 300

OUTPUT_LIMIT == 500

outdated_cmd(brew) == <<brew, <<"o", "u", "t", "d", "a", "t", "e", "d">>, <<"-", "-", "c", "a", "s", "k">>, <<"-", "-", "g", "r", "e", "e", "d", "y">>>>

probe_cmd(name) == <<CLI_CONFIG[name].path>> \o CLI_CONFIG[name].version_cmd

\* stdout.strip() or stderr.strip()
or_str(a, b) == IF a # <<>> THEN a ELSE b

\* One pass of the loop of list_tools_status, for the tool `name`: outs[name]
\* holds the outcome of its version probe and, when the probe completed, the
\* outcome of the outdated listing asked for after it.
tool_status(name, brew, outs) ==
  LET config == CLI_CONFIG[name]
      p == outs[name].probe
      b == outs[name].listing
      probe == Call(probe_cmd(name), PROBE_TIMEOUT, p)
  IN IF p.kind = "raised" THEN
       [calls |-> <<probe>>,
        status |-> [source |-> config.source, cask |-> config.cask,
                    installed |-> FALSE, error |-> p.msg]]
     ELSE
       LET version_output == or_str(strip(p.stdout), strip(p.stderr))
           version == split_sep(version_output, "\n")[1]
           listing == Call(outdated_cmd(brew), OUTDATED_TIMEOUT, b)
       IN IF b.kind = "completed" /\ b.returncode = 0 THEN
            [calls |-> <<probe, listing>>,
             status |-> [source |-> config.source, cask |-> config.cask,
                         installed |-> TRUE, version |-> version,
                         update_available |-> contains(cask_name(name), b.stdout)]]
          ELSE
            [calls |-> <<probe, listing>>,
             status |-> [source |-> config.source, cask |-> config.cask,
                         installed |-> TRUE, version |-> version]]

RECURSIVE status_loop(_, _, _)
status_loop(i, brew, outs) ==
  IF i > Len(CLI_NAMES) THEN [calls |-> <<>>, status |-> <<>>]
  ELSE LET one == tool_status(CLI_NAMES[i], brew, outs)
           rest == status_loop(i + 1, brew, outs)
       IN [calls |-> one.calls \o rest.calls,
           status |-> <<[name |-> CLI_NAMES[i], status |-> one.status]>>
                      \o rest.status]

list_tools_status(mach, outs) ==
  LET all == status_loop(1, get_brew_path(mach), outs)
  IN Done(all.calls, json_dumps(all.status))

\* The first line of `lines`, from index i on, that contains cask; 0 when none does.
RECURSIVE first_match(_, _, _)
first_match(cask, lines, i) ==
  IF i > Len(lines) THEN 0
  ELSE IF contains(cask, lines[i]) THEN i
  ELSE first_match(cask, lines, i + 1)

\* update_entry with a slip: one bound for both fields, so that a line of two fields
\* gives its second field as the latest version too.
update_entry_one_bound(name, line) ==
  LET parts == split(line)
  IN [cli |-> name,
      cask |-> Last(split_sep(CLI_CONFIG[name].cask, "/")),
      current |-> IF Len(parts) > 1 THEN parts[2] ELSE <<"u", "n", "k", "n", "o", "w", "n">>,
      latest |-> IF Len(parts) > 1 THEN Last(parts) ELSE <<"u", "n", "k", "n", "o", "w", "n">>,
      source |-> <<"c", "a", "s", "k">>]

\* The entry check_for_updates appends for the tool `name` and the matching line.
update_entry(name, line) ==
  LET parts == split(line)
  IN [cli |-> name,
      cask |-> cask_name(name),
      current |-> IF Len(parts) > 1 THEN parts[2] ELSE <<"u", "n", "k", "n", "o", "w", "n">>,
      latest |-> IF Len(parts) > 2 THEN Last(parts) ELSE <<"u", "n", "k", "n", "o", "w", "n">>,
      source |-> <<"c", "a", "s", "k">>]

RECURSIVE updates_loop(_, _)
updates_loop(i, outdated_lines) ==
  IF i > Len(CLI_NAMES) THEN <<>>
  ELSE LET name == CLI_NAMES[i]
           k == first_match(cask_name(name), outdated_lines, 1)
       IN (IF k = 0 THEN <<>> ELSE <<update_entry(name, outdated_lines[k])>>)
          \o updates_loop(i + 1, outdated_lines)

check_for_updates(mach, r) ==
  LET brew == get_brew_path(mach)
      updates_available ==
        IF r.kind = "completed" /\ r.returncode = 0
        THEN updates_loop(1, split_sep(strip(r.stdout), "\n"))
        ELSE <<>>
  IN Done(<<Call(outdated_cmd(brew), OUTDATED_TIMEOUT, r)>>,
          json_dumps(
            [updates_available |-> Len(updates_available) > 0,
             tools |-> updates_available,
             message |-> IF updates_available # <<>>
                         THEN str_int(Len(updates_available))
                              \o <<" ", "t", "o", "o", "l", "(", "s", ")", " ", "h", "a", "v", "e", " ", "u", "p", "d", "a", "t", "e", "s", " ", "a", "v", "a", "i", "l", "a", "b", "l", "e">>
                         ELSE <<"A", "l", "l", " ", "t", "o", "o", "l", "s", " ", "a", "r", "e", " ", "u", "p", " ", "t", "o", " ", "d", "a", "t", "e">>]))

\* [f(t) for t in s]
RECURSIVE clis_of(_)
clis_of(entries) ==
  IF entries = <<>> THEN <<>> ELSE <<Head(entries).cli>> \o clis_of(Tail(entries))

RECURSIVE casks_of(_)
casks_of(names) ==
  IF names = <<>> THEN <<>>
  ELSE <<CLI_CONFIG[Head(names)].cask>> \o casks_of(Tail(names))

\* [t for t in tools if t in CLI_CONFIG]
RECURSIVE known_tools(_)
known_tools(tools) ==
  IF tools = <<>> THEN <<>>
  ELSE (IF Head(tools) \in DOMAIN CLI_CONFIG THEN <<Head(tools)>> ELSE <<>>)
       \o known_tools(Tail(tools))

\* The result entry of a batch call (upgrade or install); limit bounds the
\* output kept, 0 for no limit.
batch_result(tools, r, limit) ==
  LET cut(s) == IF limit > 0 /\ Len(s) > limit THEN SubSeq(s, 1, limit) ELSE s
  IN IF r.kind = "completed" THEN
       [tools |-> tools, source |-> <<"h", "o", "m", "e", "b", "r", "e", "w", " ", "c", "a", "s", "k">>,
        success |-> r.returncode = 0,
        output |-> IF r.returncode = 0 THEN cut(r.stdout) ELSE cut(r.stderr)]
     ELSE
       [tools |-> tools, source |-> <<"h", "o", "m", "e", "b", "r", "e", "w", " ", "c", "a", "s", "k">>,
        success |-> FALSE, error |-> r.msg]

\* tools is None or a list of names; rOutdated is the outcome of the outdated
\* listing (when it is asked for) and rUpgrade of the upgrade call.
update_tools(tools, mach, rOutdated, rUpgrade) ==
  LET brew == get_brew_path(mach)
      check == check_for_updates(mach, rOutdated)
      given == truthy(tools)
      tools_to_update == IF given THEN known_tools(tools.v)
                         ELSE clis_of(check.ret.obj.tools)
      before == IF given THEN <<>> ELSE check.launched
  IN IF tools_to_update = <<>> THEN
       Done(before, json_dumps([message |-> <<"N", "o", " ", "t", "o", "o", "l", "s", " ", "t", "o", " ", "u", "p", "d", "a", "t", "e">>, results |-> <<>>]))
     ELSE
       LET cmd == <<brew, <<"u", "p", "g", "r", "a", "d", "e">>, <<"-", "-", "c", "a", "s", "k">>>> \o casks_of(tools_to_update)
       IN Done(before \o <<Call(cmd, BATCH_TIMEOUT, rUpgrade)>>,
               json_dumps([updated |-> tools_to_update,
                           results |-> <<batch_result(tools_to_update, rUpgrade, 0)>>]))

\* The loop of install_missing_tools from tool i on: the probes made, the
\* tools found missing, and the exception that ended the loop, if one did.
RECURSIVE missing_loop(_, _)
missing_loop(i, probes) ==
  IF i > Len(CLI_NAMES) THEN [calls |-> <<>>, missing |-> <<>>, raised |-> <<>>]
  ELSE LET name == CLI_NAMES[i]
           p == probes[name]
           probe == Call(probe_cmd(name), PROBE_TIMEOUT, p)
       IN IF p.kind = "raised" /\ p.exc # "FileNotFoundError" THEN
            [calls |-> <<probe>>, missing |-> <<>>, raised |-> <<p>>]
          ELSE
            LET rest == missing_loop(i + 1, probes)
            IN [calls |-> <<probe>> \o rest.calls,
                missing |-> (IF p.kind = "raised" THEN <<name>> ELSE <<>>)
                            \o rest.missing,
                raised |-> rest.raised]

install_missing_tools(mach, probes, rTap, rInstall) ==
  LET brew == get_brew_path(mach)
      loop == missing_loop(1, probes)
      missing == loop.missing
      tap == Call(<<brew, <<"t", "a", "p">>, <<"o", "p", "e", "n", "-", "c", "l", "i", "-", "c", "o", "l", "l", "e", "c", "t", "i", "v", "e", "/", "t", "a", "p">>>>, TAP_TIMEOUT, rTap)
      install == Call(<<brew, <<"i", "n", "s", "t", "a", "l", "l">>, <<"-", "-", "c", "a", "s", "k">>>> \o casks_of(missing),
                      BATCH_TIMEOUT, rInstall)
  IN IF loop.raised # <<>> THEN
       Done(loop.calls, Raise(loop.raised[1]))
     ELSE IF missing = <<>> THEN
       Done(loop.calls,
            json_dumps([message |-> <<"A", "l", "l", " ", "t", "o", "o", "l", "s", " ", "a", "r", "e", " ", "i", "n", "s", "t", "a", "l", "l", "e", "d">>, missing |-> <<>>]))
     ELSE IF rTap.kind = "raised" THEN
       Done(loop.calls \o <<tap>>, Raise(rTap))
     ELSE
       Done(loop.calls \o <<tap, install>>,
            json_dumps([missing_tools |-> missing,
                        results |-> <<batch_result(missing, rInstall, OUTPUT_LIMIT)>>]))

(***************************************************************************)
(* The inputs the callers give and the outcomes the environment gives.     *)
(***************************************************************************)
SeqsUpTo(S, n) == UNION {[1..k -> S] : k \in 0..n}

ArgAlphabet == {"a", " ", "\"", "'"}

ArgStrings == SeqsUpTo(ArgAlphabet, MaxArgLen)

QueryStrings == SeqsUpTo(ArgAlphabet, MaxQueryLen)

Limits == {5, 20}

IssueKeys == {<<"P", "R", "O", "J", "-", "1">>, <<"a", " ", "b">>}

HelpNames == {<<"c", "f", "l">>, <<"g", "r", "o">>, <<"j", "t", "k">>, <<>>}

Subcommands == {None, PyStr(<<>>), PyStr(<<"p", "a", "g", "e", " ", "l", "i", "s", "t">>), PyStr(<<" ", "i", "s", "s", "u", "e", "s">>)}

ToolNames == {<<"c", "f", "l">>, <<"g", "r", "o">>, <<"j", "t", "k">>}

ToolLists == {None} \cup {PyList(s) : s \in SeqsUpTo(ToolNames, MaxTools)}

Machines == {<<"a", "r", "m", "6", "4">>, <<"x", "8", "6", "_", "6", "4">>}

StdoutTexts == {<<>>, <<"[", "]", "\n">>, <<"{", "}">>, <<"n", "u", "l", "l">>, <<"0">>, <<"[", "1", "]", "\n">>, <<" ", "o", "k", " ", "\n">>, <<"\"", "\"">>}

StderrTexts == {<<>>, <<"e", "\n">>}

RunOutcomes ==
  LaunchFaults
  \cup {Completed(rc, out, err) : rc \in {0, 1}, out \in StdoutTexts, err \in StderrTexts}

\* Outcomes of a version probe.
ProbeOutcomes == LaunchFaults \cup {Completed(0, <<"1", ".", "0", "\n">>, <<>>)}

\* The fields a line of the outdated listing starts with, and the version
\* fields that follow.
NameFields == {cask_name(<<"c", "f", "l">>), cask_name(<<"g", "r", "o">>), <<"y">>}

VersionFields == <<<<"1">>, <<"!", "=">>, <<"2">>, <<"3">>>>

RECURSIVE join(_, _)
join(pieces, sep) ==
  IF pieces = <<>> THEN <<>>
  ELSE IF Len(pieces) = 1 THEN pieces[1]
  ELSE pieces[1] \o sep \o join(Tail(pieces), sep)

OutdatedLines ==
  {join(<<n>> \o SubSeq(VersionFields, 1, k), <<" ">>) :
     n \in NameFields, k \in 0..(MaxFields - 1)}

OutdatedTexts ==
  {join(ls, <<"\n">>) \o <<"\n">> : ls \in SeqsUpTo(OutdatedLines, MaxLines)}

OutdatedOutcomes ==
  {TimedOut, FileNotFound, Completed(1, <<>>, <<"E", "r", "r", "o", "r">>)}
  \cup {Completed(0, t, <<>>) : t \in OutdatedTexts}

\* Outcomes of the tap, upgrade and install calls.
BrewOutcomes ==
  {TimedOut, FileNotFound, Completed(0, <<"d", "o", "n", "e">>, <<>>), Completed(1, <<>>, <<"E", "r", "r", "o", "r">>)}

\* Outcomes of the outdated listing inside list_tools_status.
ListingOutcomes ==
  {TimedOut, Completed(1, <<>>, <<"E", "r", "r", "o", "r">>),
   Completed(0, join(<<cask_name(<<"c", "f", "l">>), <<"1">>, <<"!", "=">>, <<"2">>>>, <<" ">>) \o <<"\n">>, <<>>)}

\* Outcomes of one pass of the loop of list_tools_status: the version probe
\* raises and no listing is asked for, or it completes and the listing follows.
StatusOutcomes ==
  {[probe |-> p, listing |-> p] : p \in {FileNotFound, TimedOut}}
  \cup {[probe |-> Completed(0, <<"1", ".", "0", "\n", "b", "u", "i", "l", "d", " ", "7", "\n">>, <<>>), listing |-> b] :
          b \in ListingOutcomes \ {TimedOut}}
  \cup {[probe |-> Completed(1, <<>>, <<"v", "2", "\n">>), listing |-> TimedOut]}

(***************************************************************************)
(* The server: it waits for a request, runs the operation asked for to     *)
(* its end, and hands back what the operation returned.                    *)
(***************************************************************************)
Init ==
  /\ pc = "idle"
  /\ op = "none"
  /\ input = [none |-> TRUE]
  /\ launched = <<>>
  /\ result = [kind |-> "none"]

Finish(name, in, d) ==
  /\ pc' = "done"
  /\ op' = name
  /\ input' = in
  /\ launched' = d.launched
  /\ result' = d.ret

CliHelp ==
  /\ pc = "idle"
  /\ \E cli \in HelpNames, sub \in Subcommands, r \in RunOutcomes :
    Finish("cli_help", [cli |-> cli, subcommand |-> sub], cli_help(cli, sub, r))

JiraCli ==
  /\ pc = "idle"
  /\ \E args \in ArgStrings, r \in RunOutcomes :
    Finish("jira_cli", [args |-> args], jira_cli(args, r))

SlackCli ==
  /\ pc = "idle"
  /\ \E args \in ArgStrings, r \in RunOutcomes :
    Finish("slack_cli", [args |-> args], slack_cli(args, r))

ConfluenceCli ==
  /\ pc = "idle"
  /\ \E args \in ArgStrings, r \in RunOutcomes :
    Finish("confluence_cli", [args |-> args], confluence_cli(args, r))

NewrelicCli ==
  /\ pc = "idle"
  /\ \E args \in ArgStrings, r \in RunOutcomes :
    Finish("newrelic_cli", [args |-> args], newrelic_cli(args, r))

GoogleCli ==
  /\ pc = "idle"
  /\ \E args \in ArgStrings, r \in RunOutcomes :
    Finish("google_cli", [args |-> args], google_cli(args, r))

JiraGetIssue ==
  /\ pc = "idle"
  /\ \E key \in IssueKeys, r \in RunOutcomes :
    Finish("jira_get_issue", [issue_key |-> key], jira_get_issue(key, r))

SlackSearchMessages ==
  /\ pc = "idle"
  /\ \E q \in QueryStrings, n \in Limits, r \in RunOutcomes :
    Finish("slack_search_messages", [query |-> q, limit |-> n],
           slack_search_messages(q, n, r))

ConfluenceSearch ==
  /\ pc = "idle"
  /\ \E q \in QueryStrings, n \in Limits, r \in RunOutcomes :
    Finish("confluence_search", [query |-> q, limit |-> n],
           confluence_search(q, n, r))

GmailSearch ==
  /\ pc = "idle"
  /\ \E q \in QueryStrings, n \in Limits, r \in RunOutcomes :
    Finish("gmail_search", [query |-> q, limit |-> n], gmail_search(q, n, r))

CalendarToday ==
  /\ pc = "idle"
  /\ \E r \in RunOutcomes :
    Finish("calendar_today", [none |-> TRUE], calendar_today(r))

DriveSearch ==
  /\ pc = "idle"
  /\ \E q \in QueryStrings, n \in Limits, r \in RunOutcomes :
    Finish("drive_search", [query |-> q, limit |-> n], drive_search(q, n, r))

ListToolsStatus ==
  /\ pc = "idle"
  /\ \E mach \in Machines, outs \in [DOMAIN CLI_CONFIG -> StatusOutcomes] :
    Finish("list_tools_status", [none |-> TRUE], list_tools_status(mach, outs))

CheckForUpdates ==
  /\ pc = "idle"
  /\ \E mach \in Machines, r \in OutdatedOutcomes :
    Finish("check_for_updates", [none |-> TRUE], check_for_updates(mach, r))

UpdateTools ==
  /\ pc = "idle"
  /\ \E mach \in Machines, tools \in ToolLists, rOutdated \in OutdatedOutcomes, rUpgrade \in BrewOutcomes :
    Finish("update_tools", [tools |-> tools],
           update_tools(tools, mach, rOutdated, rUpgrade))

InstallMissingTools ==
  /\ pc = "idle"
  /\ \E mach \in Machines, probes \in [DOMAIN CLI_CONFIG -> ProbeOutcomes],
     rTap \in BrewOutcomes, rInstall \in BrewOutcomes :
    Finish("install_missing_tools", [none |-> TRUE],
           install_missing_tools(mach, probes, rTap, rInstall))

\* The payload has gone back to the caller; the server waits for the next request.
Return ==
  /\ pc = "done"
  /\ pc' = "idle"
  /\ op' = "none"
  /\ input' = [none |-> TRUE]
  /\ launched' = <<>>
  /\ result' = [kind |-> "none"]

Next ==
  \/ CliHelp
  \/ JiraCli
  \/ SlackCli
  \/ ConfluenceCli
  \/ NewrelicCli
  \/ GoogleCli
  \/ JiraGetIssue
  \/ SlackSearchMessages
  \/ ConfluenceSearch
  \/ GmailSearch
  \/ CalendarToday
  \/ DriveSearch
  \/ ListToolsStatus
  \/ CheckForUpdates
  \/ UpdateTools
  \/ InstallMissingTools
  \/ Return

Spec == Init /\ [][Next]_vars

(***************************************************************************)
(* The operations by kind, and what the properties read from a finished    *)
(* operation.                                                              *)
(***************************************************************************)
GenericOps == {"jira_cli", "slack_cli", "confluence_cli", "newrelic_cli", "google_cli"}

SearchOps == {"slack_search_messages", "confluence_search", "gmail_search", "drive_search"}

\* The operations whose payload is the envelope of run_cli.
RunCliOps ==
  GenericOps \cup SearchOps \cup {"cli_help", "jira_get_issue", "calendar_today"}

\* The registry name of the tool a pass-through operation runs.
ToolOf(o) ==
  CASE o = "jira_cli" -> <<"j", "i", "r", "a", "-", "t", "i", "c", "k", "e", "t", "-", "c", "l", "i">>
    [] o = "slack_cli" -> <<"s", "l", "c", "k">>
    [] o = "confluence_cli" -> <<"c", "f", "l">>
    [] o = "newrelic_cli" -> <<"n", "e", "w", "r", "e", "l", "i", "c", "-", "c", "l", "i">>
    [] o = "google_cli" -> <<"g", "r", "o">>

IsQuote(c) == c \in {"\"", "'"}

\* Shell-style tokenization of s, as the tests of the pass-through operations
\* expect it: whitespace outside quotes separates tokens, a quote opens a span
\* that runs to the next quote of the same kind, and the quote characters are
\* not part of the token.  cur is the token read so far, started says that a
\* token has begun, and quote is the open quote ("" when none is open).
RECURSIVE quoted_tokens(_, _, _, _)
quoted_tokens(s, cur, started, quote) ==
  IF s = <<>> THEN (IF started THEN <<cur>> ELSE <<>>)
  ELSE LET c == Head(s) IN
    IF quote # "" THEN
      IF c = quote THEN quoted_tokens(Tail(s), cur, TRUE, "")
      ELSE quoted_tokens(Tail(s), cur \o <<c>>, TRUE, quote)
    ELSE IF IsQuote(c) THEN quoted_tokens(Tail(s), cur, TRUE, c)
    ELSE IF IsSpace(c) THEN
      (IF started THEN <<cur>> ELSE <<>>) \o quoted_tokens(Tail(s), <<>>, FALSE, "")
    ELSE quoted_tokens(Tail(s), cur \o <<c>>, TRUE, "")

\* The quote left open at the end of s ("" when every quote is closed).
RECURSIVE open_quote(_, _)
open_quote(s, quote) ==
  IF s = <<>> THEN quote
  ELSE IF quote # "" THEN open_quote(Tail(s), IF Head(s) = quote THEN "" ELSE quote)
  ELSE open_quote(Tail(s), IF IsQuote(Head(s)) THEN Head(s) ELSE "")

Balanced(s) == open_quote(s, "") = ""

Finished == pc = "done"

Returned == Finished /\ result.kind = "json"

\* C1: for every pass-through operation and every argument string whose quotes
\* are balanced, the command handed to run_cli is the tool's registry path
\* followed by the shell-style tokens of the string: a quoted span is one token,
\* without its quote characters.
C1_QuotedSpanIsOneToken ==
  (Finished /\ op \in GenericOps /\ Balanced(input.args)) =>
    /\ Len(launched) = 1
    /\ launched[1].cmd
         = <<CLI_CONFIG[ToolOf(op)].path>> \o quoted_tokens(input.args, <<>>, FALSE, "")

\* C2: no envelope of run_cli has both data and output set, and whenever stdout
\* decodes as JSON, to a falsy value too, data carries the value and output is
\* absent.
C2_DataAndOutputExclusive ==
  (Returned /\ op \in RunCliOps /\ "exit_code" \in DOMAIN result.obj) =>
    LET text == strip(launched[1].outcome.stdout)
        decoded == json_loads(text)
    IN /\ ~(result.obj.data # None /\ result.obj.output # None)
       /\ (text # <<>> /\ decoded.ok) =>
            (result.obj.data = decoded.value /\ result.obj.output = None)

\* C3: every operation returns a JSON payload whatever the outcomes of the
\* subprocesses it launches: no failure of a call leaves it as a fault.
C3_EveryOperationReturnsJson ==
  Finished => result.kind = "json"

\* C4: an argument string with an unmatched quote given to a pass-through
\* operation yields an error in the returned payload, and no subprocess is
\* launched.
C4_UnmatchedQuoteIsReported ==
  (Finished /\ op \in GenericOps /\ ~Balanced(input.args)) =>
    /\ launched = <<>>
    /\ result.kind = "json"
    /\ "error" \in DOMAIN result.obj

\* C5: for every search wrapper and every query, the query is, unchanged,
\* exactly one element of the command handed to run_cli.
C5_QueryIsOneElement ==
  (Finished /\ op \in SearchOps) =>
    /\ Len(launched) = 1
    /\ Cardinality({i \in 1..Len(launched[1].cmd) : launched[1].cmd[i] = input.query}) = 1

\* The payload names the unknown tool and lists every registered name.
UnknownToolPayload(p) ==
  /\ p.kind = "json"
  /\ "error" \in DOMAIN p.obj
  /\ {p.obj.error.available[i] : i \in 1..Len(p.obj.error.available)} = DOMAIN CLI_CONFIG

HasUnknownName(tools) ==
  /\ tools.tag = "list"
  /\ \E i \in 1..Len(tools.v) : tools.v[i] \notin DOMAIN CLI_CONFIG

\* C6, as the specification states it: an unregistered tool name given to the help operation or to
\* any operation that takes tool names (update_tools is the other one) yields a
\* payload that lists all registered names, and launches no subprocess.
C6_UnknownNameAnywhere ==
  (Finished /\ ( \/ (op = "cli_help" /\ input.cli \notin DOMAIN CLI_CONFIG)
                 \/ (op = "update_tools" /\ HasUnknownName(input.tools)) )) =>
    (UnknownToolPayload(result) /\ launched = <<>>)

\* C6, as amended: an unregistered tool name given to the help operation yields
\* a payload that names it and lists all registered names; no subprocess is
\* launched and no fault is raised.
C6_UnknownCliHelp ==
  (Finished /\ op = "cli_help" /\ input.cli \notin DOMAIN CLI_CONFIG) =>
    /\ UnknownToolPayload(result)
    /\ result.obj.error.cli = input.cli
    /\ launched = <<>>

C6_Witness ==
  Finished /\ op = "cli_help" /\ input.cli = <<"j", "t", "k">> /\ UnknownToolPayload(result)

\* C7: when the subprocess of run_cli runs past its timeout, the envelope has
\* success false and an error that tells of the timeout, has neither data nor
\* output nor anything the subprocess printed, and the command was launched
\* once only.
C7_TimeoutEnvelope ==
  (Finished /\ op \in RunCliOps /\ launched # <<>>
            /\ launched[1].outcome.kind = "raised"
            /\ launched[1].outcome.exc = "TimeoutExpired") =>
    /\ Len(launched) = 1
    /\ result.kind = "json"
    /\ DOMAIN result.obj = {"success", "error"}
    /\ result.obj.success = FALSE
    /\ contains(<<"t", "i", "m", "e", "d", " ", "o", "u", "t", " ", "a", "f", "t", "e", "r", " ">> \o str_int(launched[1].timeout) \o <<"s">>,
                result.obj.error)

C7_Witness ==
  /\ Finished /\ op = "slack_cli" /\ Len(launched) = 1
  /\ launched[1].outcome = TimedOut
  /\ launched[1].timeout = DEFAULT_TIMEOUT
  /\ result = json_dumps([success |-> FALSE, error |-> <<"C", "o", "m", "m", "a", "n", "d", " ", "t", "i", "m", "e", "d", " ", "o", "u", "t", " ", "a", "f", "t", "e", "r", " ", "6", "0", "s">>])

\* The names of s that are registered, in the order given.
Registered(s) == SelectSeq(s, LAMBDA t : t \in DOMAIN CLI_CONFIG)

IsUpgrade(c) == Len(c.cmd) >= 3 /\ c.cmd[2] = <<"u", "p", "g", "r", "a", "d", "e">>

\* C8: update_tools called with a list of names upgrades exactly the given names
\* that are registered: their casks go to one batched upgrade call, unknown
\* names raise no error, and when no given name is registered no upgrade call
\* is made.
C8_UpgradesExactlyKnownGiven ==
  (Finished /\ op = "update_tools" /\ input.tools.tag = "list") =>
    LET known == Registered(input.tools.v)
        upgrades == SelectSeq(launched, IsUpgrade)
    IN /\ result.kind = "json"
       /\ IF known = <<>> THEN upgrades = <<>>
          ELSE /\ Len(upgrades) = 1
               /\ SubSeq(upgrades[1].cmd, 4, Len(upgrades[1].cmd)) = casks_of(known)

\* The lines of the outdated listing a finished check_for_updates read.
ListingLines == split_sep(strip(launched[1].outcome.stdout), "\n")

ListingRead ==
  /\ Finished /\ op = "check_for_updates"
  /\ launched[1].outcome.kind = "completed"
  /\ launched[1].outcome.returncode = 0

\* The fields of the line an entry reports: the first line that contains the
\* entry's package identifier.
FieldsOf(e) ==
  LET k == CHOOSE i \in 1..Len(ListingLines) :
             /\ contains(e.cask, ListingLines[i])
             /\ \A j \in 1..(i - 1) : ~contains(e.cask, ListingLines[j])
  IN split(ListingLines[k])

Entries == {result.obj.tools[i] : i \in 1..Len(result.obj.tools)}

\* Every registered tool whose package identifier is in some line is reported,
\* once, and no other tool is.
ReportsMatchingTools ==
  /\ result.kind = "json"
  /\ \A n \in DOMAIN CLI_CONFIG :
       Cardinality({i \in 1..Len(result.obj.tools) : result.obj.tools[i].cli = n})
         = IF \E k \in 1..Len(ListingLines) :
                 contains(Last(split_sep(CLI_CONFIG[n].cask, "/")), ListingLines[k])
           THEN 1 ELSE 0

\* C9, as the specification states it: for every reported line, fewer than 3 fields give "unknown"
\* for both current and latest; otherwise current is the second field and latest
\* the last.
C9_FewerThanThreeFieldsBothUnknown ==
  ListingRead =>
    /\ ReportsMatchingTools
    /\ \A e \in Entries :
         IF Len(FieldsOf(e)) < 3
         THEN e.current = <<"u", "n", "k", "n", "o", "w", "n">> /\ e.latest = <<"u", "n", "k", "n", "o", "w", "n">>
         ELSE e.current = FieldsOf(e)[2] /\ e.latest = Last(FieldsOf(e))

\* C9, as amended: for every reported line, a single field gives "unknown" for
\* both current and latest; two fields give the second field as current and
\* "unknown" as latest; three or more give the second field as current and the
\* last as latest.  No line shape raises an error.
C9_VersionsFromFields ==
  ListingRead =>
    /\ ReportsMatchingTools
    /\ \A e \in Entries :
         CASE Len(FieldsOf(e)) < 2 ->
                e.current = <<"u", "n", "k", "n", "o", "w", "n">> /\ e.latest = <<"u", "n", "k", "n", "o", "w", "n">>
           [] Len(FieldsOf(e)) = 2 ->
                e.current = FieldsOf(e)[2] /\ e.latest = <<"u", "n", "k", "n", "o", "w", "n">>
           [] OTHER ->
                e.current = FieldsOf(e)[2] /\ e.latest = Last(FieldsOf(e))

C9_Witness ==
  /\ ListingRead
  /\ \E e \in Entries :
       /\ e.cli = <<"c", "f", "l">>
       /\ Len(FieldsOf(e)) = 2
       /\ e.current = <<"1">>
       /\ e.latest = <<"u", "n", "k", "n", "o", "w", "n">>
  /\ \E e \in Entries : Len(FieldsOf(e)) > 3 /\ e.current = <<"1">> /\ e.latest = <<"2">>

IsProbe(c) == c.cmd[2] = <<"-", "-", "v", "e", "r", "s", "i", "o", "n">>

\* The registered tool a version probe is for.
ProbedTool(c) == CHOOSE n \in DOMAIN CLI_CONFIG : CLI_CONFIG[n].path = c.cmd[1]

ReportedMissing(n) ==
  /\ result.kind = "json"
  /\ "missing_tools" \in DOMAIN result.obj
  /\ \E i \in 1..Len(result.obj.missing_tools) : result.obj.missing_tools[i] = n

InBatchInstall(n) ==
  \E i \in 1..Len(launched) :
    /\ launched[i].cmd[2] = <<"i", "n", "s", "t", "a", "l", "l">>
    /\ \E j \in 4..Len(launched[i].cmd) : launched[i].cmd[j] = CLI_CONFIG[n].cask

\* C10: in install_missing_tools a tool whose version probe fails to launch,
\* for whatever reason, is in the missing list and in the batch install; a tool
\* whose probe launches is never in the missing list.
C10_LaunchFailureMeansMissing ==
  (Finished /\ op = "install_missing_tools") =>
    \A i \in 1..Len(launched) :
      IsProbe(launched[i]) =>
        IF launched[i].outcome.kind = "raised"
        THEN ReportedMissing(ProbedTool(launched[i]))
             /\ InBatchInstall(ProbedTool(launched[i]))
        ELSE ~ReportedMissing(ProbedTool(launched[i]))

IsTap(c) == Len(c.cmd) >= 2 /\ c.cmd[2] = <<"t", "a", "p">>

IsInstall(c) == Len(c.cmd) >= 3 /\ c.cmd[2] = <<"i", "n", "s", "t", "a", "l", "l">>

\* The tools whose version probe found no binary, in the order probed.
RECURSIVE NotFoundTools(_)
NotFoundTools(calls) ==
  IF calls = <<>> THEN <<>>
  ELSE (IF /\ IsProbe(Head(calls))
           /\ Head(calls).outcome.kind = "raised"
           /\ Head(calls).outcome.exc = "FileNotFoundError"
        THEN <<ProbedTool(Head(calls))>> ELSE <<>>)
       \o NotFoundTools(Tail(calls))

\* The places in `launched` of the calls that satisfy Is.
Places(Is(_)) == {i \in 1..Len(launched) : Is(launched[i])}

\* Every version probe either ran to its end or found no binary, so that which
\* tools are missing is not in doubt.
ProbesDecided ==
  \A i \in 1..Len(launched) :
    IsProbe(launched[i]) =>
      \/ launched[i].outcome.kind = "completed"
      \/ launched[i].outcome.exc = "FileNotFoundError"

\* C11: in install_missing_tools, when at least one tool is missing the tap is
\* registered before the batch install, the install is issued exactly once with
\* the casks of all missing tools, and a tap call that fails (non-zero exit,
\* timeout or launch fault) does not prevent the install; when no tool is
\* missing neither call is issued.  Stated for the runs in which every probe
\* either ran or found no binary.
C11_TapThenOneBatchInstall ==
  (Finished /\ op = "install_missing_tools" /\ ProbesDecided) =>
    LET missing == NotFoundTools(launched)
    IN IF missing = <<>>
       THEN Places(IsTap) = {} /\ Places(IsInstall) = {}
       ELSE /\ Cardinality(Places(IsInstall)) = 1
            /\ Places(IsTap) # {}
            /\ \A t \in Places(IsTap), k \in Places(IsInstall) :
                 /\ t < k
                 /\ SubSeq(launched[k].cmd, 4, Len(launched[k].cmd)) = casks_of(missing)
====
